---- MODULE Spec2Model ----
(***************************************************************************)
(* visify: the state-polling pipeline (src/state.rs, Client) feeding the   *)
(* render loop (src/lib.rs, Visualizer) through a tokio mpsc channel of    *)
(* capacity 1.                                                             *)
(*                                                                         *)
(* Rust's Option<T> is modelled as a sequence of length 0 (None) or 1      *)
(* (Some).  Time is in milliseconds.                                       *)
(***************************************************************************)
EXTENDS Integers, Sequences, FiniteSets, TLC

\* ---------------------------------------------------------------- bounds
\* Poll cycles the poller may start while the receiver is alive.
MaxPolls == 2
\* The clock advances freely up to this instant (and beyond it only to let
\* a cadence sleep run out).
MaxTime == 7000
\* Batches of samples the audio callback may push.
MaxWrites == 2
\* Calls of Bode::show that may be interleaved with the audio thread.
MaxShows == 2

\* ------------------------------------------------------ program constants
\* state.rs:6  pub const REFRESH_RATE_MS: u64 = 5000;
REFRESH_RATE_MS == 5000
\* lib.rs:150  channel(1)
CapacityTwo == 1 + 1

Capacity == 1
\* One step of the wall clock: two seconds.
TickMs == 2 * 1000

None == <<>>
Some(v) == <<v>>
IsSome(o) == Len(o) > 0
Unwrap(o) == o[1]

\* ------------------------------------------------------ provider fixtures
\* rspotify FullTrack, reduced to the fields get_state reads.
MkTrack(id, name, album, images, artists, duration) ==
    [id |-> id, name |-> name, album |-> [name |-> album, images |-> images],
     artists |-> artists, duration |-> duration]

Artist(n) == [name |-> n]
Image(u) == [url |-> u]

TrackA == MkTrack(Some("idA"), "A", "B", <<Image("artB")>>, <<Artist("C")>>, 200000)
\* several artists, several images, short enough to be outrun by the clock
TrackM ==
    MkTrack(Some("idM"), "M", "N", <<Image("artN1"), Image("artN2")>>,
            <<Artist("D"), Artist("E")>>, 3000)
\* a local file: no id and no cover art
TrackLocal == MkTrack(None, "L", "local", <<>>, <<Artist("F")>>, 100000)
\* a catalogue track whose album has no image
TrackNoArt == MkTrack(Some("idX"), "X", "Y", <<>>, <<Artist("G")>>, 100000)

\* rspotify PlayableItem inside Option: None, Some(Episode), Some(Track(t)).
ItemNone == [kind |-> "None", track |-> None]
ItemEpisode == [kind |-> "Episode", track |-> None]
ItemTrack(t) == [kind |-> "Track", track |-> Some(t)]

\* rspotify CurrentPlaybackContext, reduced to the fields get_state reads.
MkContext(progress, item, shuffle, repeat) ==
    [progress |-> progress, item |-> item,
     shuffle_state |-> shuffle, repeat_state |-> repeat]

Contexts ==
    { MkContext(Some(30000), ItemTrack(TrackA), FALSE, "Off"),
      MkContext(Some(1000), ItemTrack(TrackM), TRUE, "Track"),
      MkContext(None, ItemTrack(TrackA), FALSE, "Context"),
      MkContext(Some(30000), ItemNone, FALSE, "Off"),
      MkContext(Some(30000), ItemEpisode, TRUE, "Off"),
      MkContext(Some(5000), ItemTrack(TrackLocal), FALSE, "Off"),
      MkContext(Some(5000), ItemTrack(TrackNoArt), FALSE, "Off") }

\* What current_playback(...).await can yield: Err(ClientError), Ok(None),
\* Ok(Some(context)).
PlaybackResponses ==
    { [tag |-> "Err", ctx |-> None], [tag |-> "Ok", ctx |-> None] }
        \cup { [tag |-> "Ok", ctx |-> Some(c)] : c \in Contexts }

\* What current_user_saved_tracks_contains([id]).await can yield:
\* Err(ClientError) or Ok(list of bool).
LikedResponses ==
    { [tag |-> "Err", list |-> <<>>], [tag |-> "Ok", list |-> <<>>],
      [tag |-> "Ok", list |-> <<TRUE>>], [tag |-> "Ok", list |-> <<FALSE>>] }

\* ------------------------------------------------------------ spectrum.rs
\* spectrum.rs:37,52  the window: 8192 samples and 8192 smoothed bins.
WindowSize == 8192
\* spectrum.rs:33  the ring buffer holds five seconds of samples.
BufferSeconds == 5
\* spectrum.rs:58  FrequencyLimit::Max(10000.0), in Hz.
FrequencyLimitHz == 10000
\* spectrum.rs:70  the boost of an instantaneous magnitude.
Boost == 5000
\* spectrum.rs:68  the decay of a stored magnitude, 0.84, in percent.
DecayPercent == 84

(***************************************************************************)
(* The sample and bin vectors are kept run-length encoded, which loses     *)
(* nothing: a vector of samples is a sequence of runs [n, v] (n > 0 equal   *)
(* samples v, no two neighbouring runs with the same v), a vector of bins   *)
(* a sequence of runs [n, f0, df, m]: n bins of magnitude m whose j-th       *)
(* frequency (j = 0..n-1) is f0 + j * df.  Frequencies are in units of      *)
(* 1/WindowSize Hz, so that bin i of a spectrum at sample rate r has the    *)
(* exact frequency i * r.  Magnitudes are fixed-point integers.            *)
(***************************************************************************)
RECURSIVE RunLen(_)
RunLen(runs) == IF runs = <<>> THEN 0 ELSE Head(runs).n + RunLen(Tail(runs))

\* vec![v; n]
Filled(n, v) == IF n = 0 THEN <<>> ELSE <<[n |-> n, v |-> v]>>

\* a followed by b.
Concat(a, b) ==
    IF a = <<>> THEN b
    ELSE IF b = <<>> THEN a
    ELSE IF a[Len(a)].v = Head(b).v
      THEN SubSeq(a, 1, Len(a) - 1)
             \o <<[n |-> a[Len(a)].n + Head(b).n, v |-> Head(b).v]>>
             \o Tail(b)
    ELSE a \o b

\* The vector without its first k elements.
RECURSIVE DropFirst(_, _)
DropFirst(runs, k) ==
    IF k <= 0 \/ runs = <<>> THEN runs
    ELSE IF Head(runs).n <= k THEN DropFirst(Tail(runs), k - Head(runs).n)
    ELSE <<[Head(runs) EXCEPT !.n = @ - k]>> \o Tail(runs)

\* The last k elements of the vector (k <= its length).
TakeLast(runs, k) == DropFirst(runs, RunLen(runs) - k)

\* usize::next_power_of_two: the smallest power of two >= n (1 for n = 0).
RECURSIVE PowerOfTwoFrom(_, _)
PowerOfTwoFrom(p, n) == IF p >= n THEN p ELSE PowerOfTwoFrom(2 * p, n)

NextPowerOfTwo(n) == PowerOfTwoFrom(1, n)

\* u32 as f32: exact up to 2^24, rounded to the nearest even multiple of
\* two in the next binade (sample rates lie in these ranges).
U32AsF32(n) ==
    IF n <= 16777216 THEN n
    ELSE IF n % 2 = 0 THEN n
    ELSE IF ((n - 1) \div 2) % 2 = 0 THEN n - 1 ELSE n + 1

\* spectrum.rs:31,33  (5 * sampling_rate as usize).next_power_of_two(),
\* sampling_rate being the device's u32 sample rate cast to f32.
RingCapacityAtLeastWindow(rate) ==
    LET c == NextPowerOfTwo(BufferSeconds * U32AsF32(rate))
    IN  IF c < WindowSize THEN WindowSize ELSE c

RingCapacity(rate) == NextPowerOfTwo(BufferSeconds * U32AsF32(rate))

\* The audio callback pushes each sample of `batch` into the ring buffer of
\* capacity `cap`; a full buffer drops its oldest sample for each push.
PushGrows(buf, cap, batch) == Concat(buf, batch)

PushAll(buf, cap, batch) ==
    LET all == Concat(buf, batch)
    IN  DropFirst(all, RunLen(all) - cap)

\* ---- bins
RECURSIVE BinLen(_)
BinLen(bins) == IF bins = <<>> THEN 0 ELSE Head(bins).n + BinLen(Tail(bins))

\* vec![(0.0, 0.0); n]
ZeroBins(n) == <<[n |-> n, f0 |-> 0, df |-> 0, m |-> 0]>>

\* The first k bins of a vector, and the rest of it.
RECURSIVE TakeBins(_, _)
TakeBins(bins, k) ==
    IF k <= 0 \/ bins = <<>> THEN <<>>
    ELSE IF Head(bins).n <= k
      THEN <<Head(bins)>> \o TakeBins(Tail(bins), k - Head(bins).n)
    ELSE <<[Head(bins) EXCEPT !.n = k]>>

RECURSIVE DropBins(_, _)
DropBins(bins, k) ==
    IF k <= 0 \/ bins = <<>> THEN bins
    ELSE IF Head(bins).n <= k THEN DropBins(Tail(bins), k - Head(bins).n)
    ELSE <<[Head(bins) EXCEPT !.n = @ - k, !.f0 = @ + k * Head(bins).df]>>
           \o Tail(bins)

\* Bin i (counted from 0) of a vector, as the (frequency, magnitude) pair.
RECURSIVE BinAt(_, _)
BinAt(bins, i) ==
    IF i < Head(bins).n
      THEN [freq |-> Head(bins).f0 + i * Head(bins).df, mag |-> Head(bins).m]
    ELSE BinAt(Tail(bins), i - Head(bins).n)

\* The indices at which a run of the vector starts or ends.
RECURSIVE RunEnds(_, _)
RunEnds(bins, from) ==
    IF bins = <<>> THEN {}
    ELSE {from, from + Head(bins).n - 1}
           \cup RunEnds(Tail(bins), from + Head(bins).n)

\* The number of bins of a spectrum of WindowSize samples at sample rate
\* `rate` whose frequency does not exceed the limit: bin i has frequency
\* i * rate / WindowSize, i = 0 .. WindowSize / 2.
SpectrumBins(rate) ==
    LET top == (FrequencyLimitHz * WindowSize) \div rate
        nyquist == WindowSize \div 2
    IN  (IF top < nyquist THEN top ELSE nyquist) + 1

\* A spectrum as samples_fft_to_spectrum returns it, given by its shape:
\* magnitude `level` on the bins [from, from + width), zero elsewhere.
Shape(from, width, level) == [from |-> from, width |-> width, level |-> level]

Silence == Shape(0, 0, 0)

SpectrumOf(shape, rate) ==
    LET k == SpectrumBins(rate)
        a == IF shape.from < k THEN shape.from ELSE k
        b == IF shape.from + shape.width < k THEN shape.from + shape.width ELSE k
        run(lo, hi, m) ==
            IF hi > lo
              THEN <<[n |-> hi - lo, f0 |-> lo * rate, df |-> rate, m |-> m]>>
              ELSE <<>>
    IN  IF shape.width = 0 \/ shape.level = 0 THEN run(0, k, 0)
        ELSE run(0, a, 0) \o run(a, b, shape.level) \o run(b, k, 0)

\* The spectra a window can have: silence for a window of zeros.
Shapes == { Silence, Shape(100, 3, 2), Shape(101, 1, 1), Shape(0, 2, 1) }

ShapesOf(window) ==
    IF \A i \in 1..Len(window) : window[i].v = 0 THEN {Silence} ELSE Shapes

\* spectrum.rs:68-73  one bin of the smoothing: the stored magnitude decays
\* by 0.84 (rounded to the fixed-point grid, as the f32 cast rounds) and is
\* raised to the boosted instantaneous magnitude.
Decayed(m) == (m * DecayPercent) \div 100

PeakHoldMean(instant, old) == (instant * Boost + Decayed(old)) \div 2

PeakHold(instant, old) ==
    IF instant * Boost >= Decayed(old) THEN instant * Boost ELSE Decayed(old)

\* spectrum.rs:62-74  latest.iter().zip(smoothed.iter_mut()).for_each(..):
\* the pairs of the zip, run by run; the zip ends with the shorter vector.
\* (The rest of both vectors is bound by a quantifier so that it is
\* evaluated once.)
RECURSIVE Zipped(_, _)
Zipped(latest, old) ==
    IF latest = <<>> \/ old = <<>> THEN <<>>
    ELSE LET l == Head(latest)
             o == Head(old)
             n == IF l.n < o.n THEN l.n ELSE o.n
         IN  <<[n |-> n, f0 |-> l.f0, df |-> l.df, m |-> PeakHold(l.m, o.m)]>>
               \o (CHOOSE z \in { Zipped(restLatest, restOld) :
                                     restLatest \in {DropBins(latest, n)},
                                     restOld \in {DropBins(old, n)} } : TRUE)

SmoothedWhole(latest, old) ==
    LET last == latest[Len(latest)]
        rest == [n |-> BinLen(old) - BinLen(latest),
                 f0 |-> last.f0 + last.n * last.df, df |-> last.df, m |-> 0]
    IN  Zipped(latest \o <<rest>>, old)

Smoothed(latest, old) ==
    Zipped(latest, old) \o DropBins(old, BinLen(latest))

\* f64::log10: negative infinity at zero.
Log10(x) == IF x = 0 THEN [finite |-> FALSE, of |-> 0] ELSE [finite |-> TRUE, of |-> x]

\* spectrum.rs:81-86  the points handed to the plot: the first half of the
\* bins, each as [log10(freq), log10(magnitude)]; a run of points keeps the
\* frequencies of its bins and the logarithm of their common magnitude.
Points(bins) ==
    [j \in 1..Len(bins) |->
        [n |-> bins[j].n, f0 |-> bins[j].f0, df |-> bins[j].df,
         y |-> Log10(bins[j].m)]]

PlotPointsWhole(data) == Points(data)

PlotPoints(data) == Points(TakeBins(data, BinLen(data) \div 2))

\* Point i (counted from 0) of the plot.
RECURSIVE PointAt(_, _)
PointAt(points, i) ==
    IF i < Head(points).n
      THEN [x |-> Log10(Head(points).f0 + i * Head(points).df),
            y |-> Head(points).y]
    ELSE PointAt(Tail(points), i - Head(points).n)

\* cpal input devices as list_input_devs() enumerates them.
Device(name, rate) == [name |-> name, rate |-> rate]

DeviceLists ==
    { <<>>,
      <<Device("mic", 44100), Device("line", 48000)>>,
      <<Device("line", 48000), Device("mic", 44100)>>,
      <<Device("slow", 800)>> }

\* ------------------------------------------------------------------ state
VARIABLES
    now,        \* the monotonic clock (Instant::now())
    pc,         \* where the poller task is suspended
    playback,   \* this cycle's answer to the playback query (Option)
    liked,      \* this cycle's answer to the liked query (Option)
    pending,    \* the outcome held by a send that has not completed
    wakeAt,     \* when the cadence sleep runs out
    chan,       \* the values buffered in the channel
    rxClosed,   \* the Receiver (owned by the Visualizer) has been dropped
    state,      \* Visualizer.state, the displayed State
    shown,      \* the progress the last frame put on the progress bar
    frameAt,    \* the instant of the last frame
    lastRecv,   \* what the last frame's try_recv returned
    polls,      \* playback queries issued so far
    likedCalls, \* liked queries issued so far
    sent,       \* sends that completed with Ok(())
    produced,   \* the outcomes get_state returned, in order
    recvd,      \* the outcomes try_recv handed to the render loop, in order
    main,       \* where show() of lib.rs is: "new", "built", "running", "aborted"
    devices,    \* the input devices list_input_devs() enumerates
    bode,       \* the constructed Bode (Option): device, rate, capacity
    audio,      \* latest_audio_data, the ring buffer
    written,    \* every sample the audio callback has pushed, in order
    writes,     \* batches of samples pushed so far
    holder,     \* who holds the ring buffer's Mutex: "none" or "reader"
    rd,         \* where get_spectrum is: "idle", "locked", "compute", "panicked"
    copy,       \* get_spectrum's local `audio`, the snapshot
    latest,     \* get_spectrum's local `latest_spectrum`
    smoothed,   \* smoothed_spectrum
    plotted,    \* the points the last frame handed to the plot
    shows       \* calls of Bode::show made step by step that have returned

bodeVars == <<main, devices, bode, audio, written, writes, holder, rd, copy,
              latest, smoothed, plotted, shows>>

vars == <<now, pc, playback, liked, pending, wakeAt, chan, rxClosed, state,
          shown, frameAt, lastRecv, polls, likedCalls, sent, produced, recvd,
          bodeVars>>

pollerVars ==
    <<pc, playback, liked, pending, wakeAt, polls, likedCalls, sent, produced>>
updateVars == <<state, shown, frameAt, lastRecv, recvd>>
frameVars == <<updateVars, bodeVars>>

\* ------------------------------------------------------------ state.rs
\* impl Default for State, constructed at instant t.
DefaultState(t) ==
    [liked |-> FALSE, shuffled |-> FALSE, repeat_state |-> "Off",
     progress |-> 0, duration |-> 0, instant_of_last_refresh |-> t,
     track |-> "", album |-> "", artists |-> <<>>, cover_art_url |-> ""]

\* StateResult<State>: Ok(State) or Err(StateError).
OkOutcome(s) == [tag |-> "Ok", state |-> Some(s)]
ErrOutcome(e) == [tag |-> e, state |-> None]

\* track.artists.iter().map(|artist| artist.name.clone()).collect()
ArtistNames(artists) == [i \in 1..Len(artists) |-> artists[i].name]

\* The State built at lines 75-101 from the context, the first element of
\* the liked answer and the instant read at line 79.
BuildStateLastImage(c, isLiked, t) ==
    LET track == Unwrap(c.item.track)
    IN  [liked |-> isLiked,
         shuffled |-> c.shuffle_state,
         repeat_state |-> c.repeat_state,
         progress |-> Unwrap(c.progress),
         duration |-> track.duration,
         instant_of_last_refresh |-> t,
         track |-> track.name,
         album |-> track.album.name,
         artists |-> ArtistNames(track.artists),
         cover_art_url |-> track.album.images[Len(track.album.images)].url]

BuildState(c, isLiked, t) ==
    LET track == Unwrap(c.item.track)
    IN  [liked |-> isLiked,
         shuffled |-> c.shuffle_state,
         repeat_state |-> c.repeat_state,
         progress |-> Unwrap(c.progress),
         duration |-> track.duration,
         instant_of_last_refresh |-> t,
         track |-> track.name,
         album |-> track.album.name,
         artists |-> ArtistNames(track.artists),
         cover_art_url |-> Head(track.album.images).url]

\* if let (Some(progress), Some(PlayableItem::Track(track))) = (...)
HasProgressAndTrack(c) == IsSome(c.progress) /\ c.item.kind = "Track"

\* The Sender lives in the poller task: it is dropped when the task ends.
TxAlive == pc \notin {"done", "panicked"}

\* spectrum.rs:28-33  the fields Bode::new derives from the device it opens.
Built(dev) ==
    [device |-> dev.name, sampling_rate |-> U32AsF32(dev.rate),
     capacity |-> RingCapacity(dev.rate)]

Init ==
    /\ now = 0
    /\ pc = "start"
    /\ playback = None
    /\ liked = None
    /\ pending = None
    /\ wakeAt = 0
    /\ chan = <<>>
    /\ rxClosed = FALSE
    /\ state = DefaultState(0)
    /\ shown = 0
    /\ frameAt = 0
    /\ lastRecv = "none"
    /\ polls = 0
    /\ likedCalls = 0
    /\ sent = 0
    /\ produced = <<>>
    /\ recvd = <<>>
    /\ devices = <<Device("mic", 44100)>>
    /\ main = "running"
    /\ bode = Some(Built(Head(devices)))
    /\ audio = Filled(RingCapacity(Head(devices).rate), 0)
    /\ smoothed = ZeroBins(WindowSize)
    /\ written = <<>>
    /\ writes = 0
    /\ holder = "none"
    /\ rd = "idle"
    /\ copy = <<>>
    /\ latest = <<>>
    /\ plotted = <<>>
    /\ shows = 0

\* The state when show() of lib.rs is entered: the channel exists, nothing
\* is constructed or spawned yet, and the host has one of the device lists.
InitOfShow(lists) ==
    /\ now = 0
    /\ pc = "unspawned"
    /\ playback = None
    /\ liked = None
    /\ pending = None
    /\ wakeAt = 0
    /\ chan = <<>>
    /\ rxClosed = FALSE
    /\ state = DefaultState(0)
    /\ shown = 0
    /\ frameAt = 0
    /\ lastRecv = "none"
    /\ polls = 0
    /\ likedCalls = 0
    /\ sent = 0
    /\ produced = <<>>
    /\ recvd = <<>>
    /\ devices \in lists
    /\ main = "new"
    /\ bode = None
    /\ audio = <<>>
    /\ smoothed = <<>>
    /\ written = <<>>
    /\ writes = 0
    /\ holder = "none"
    /\ rd = "idle"
    /\ copy = <<>>
    /\ latest = <<>>
    /\ plotted = <<>>
    /\ shows = 0

\* get_state returned `outcome`: it becomes the argument of tx.send.
Returned(outcome) ==
    /\ pc' = "send"
    /\ pending' = Some(outcome)
    /\ produced' = Append(produced, outcome)

\* An unwrap() on None: the task panics and is dropped, and tx with it.
Panicked ==
    /\ pc' = "panicked"
    /\ UNCHANGED <<pending, produced>>

\* Top of the loop: get_state is called and issues the playback query.
CallCurrentPlayback ==
    /\ pc = "start"
    /\ polls < MaxPolls \/ rxClosed
    /\ pc' = "query"
    /\ polls' = polls + 1
    /\ UNCHANGED <<now, playback, liked, pending, wakeAt, likedCalls, sent,
                   produced, chan, rxClosed>>
    /\ UNCHANGED frameVars

\* The playback query returns `resp` (lines 64-70, 102-107).
CurrentPlaybackReturns(resp) ==
    /\ pc = "query"
    /\ playback' = Some(resp)
    /\ IF resp.tag = "Err"
         THEN Returned(ErrOutcome("Client")) /\ UNCHANGED likedCalls
       ELSE IF ~IsSome(resp.ctx)
         THEN Returned(ErrOutcome("NoContext")) /\ UNCHANGED likedCalls
       ELSE IF ~HasProgressAndTrack(Unwrap(resp.ctx))
         THEN Returned(ErrOutcome("MissingState")) /\ UNCHANGED likedCalls
       ELSE IF ~IsSome(Unwrap(Unwrap(resp.ctx).item.track).id)
         THEN Panicked /\ UNCHANGED likedCalls
       ELSE /\ pc' = "liked"
            /\ likedCalls' = likedCalls + 1
            /\ UNCHANGED <<pending, produced>>
    /\ UNCHANGED <<now, liked, wakeAt, polls, sent, chan, rxClosed>>
    /\ UNCHANGED frameVars

\* The liked query returns `resp` (lines 69-101).
SavedTracksContainsReturns(resp) ==
    /\ pc = "liked"
    /\ liked' = Some(resp)
    /\ LET c == Unwrap(Unwrap(playback).ctx)
       IN  IF resp.tag = "Err"
             THEN Returned(ErrOutcome("Client"))
           ELSE IF resp.list = <<>>
             THEN Panicked
           ELSE IF Unwrap(c.item.track).album.images = <<>>
             THEN Panicked
           ELSE Returned(OkOutcome(BuildState(c, Head(resp.list), now)))
    /\ UNCHANGED <<now, playback, wakeAt, polls, likedCalls, sent, chan,
                   rxClosed>>
    /\ UNCHANGED frameVars

\* tx.send(..).await completes with Ok(()): a slot was free.  The loop body
\* then starts the cadence sleep.
SendOverwrites ==
    /\ pc = "send"
    /\ ~rxClosed
    /\ chan' = <<Unwrap(pending)>>
    /\ pending' = None
    /\ playback' = None
    /\ liked' = None
    /\ sent' = sent + 1
    /\ pc' = "sleep"
    /\ wakeAt' = now + REFRESH_RATE_MS
    /\ UNCHANGED <<now, polls, likedCalls, produced, rxClosed>>
    /\ UNCHANGED frameVars

SendUnbounded ==
    /\ pc = "send"
    /\ ~rxClosed
    /\ chan' = Append(chan, Unwrap(pending))
    /\ pending' = None
    /\ playback' = None
    /\ liked' = None
    /\ sent' = sent + 1
    /\ pc' = "sleep"
    /\ wakeAt' = now + REFRESH_RATE_MS
    /\ UNCHANGED <<now, polls, likedCalls, produced, rxClosed>>
    /\ UNCHANGED frameVars

SendCompletesRestamps ==
    /\ pc = "send"
    /\ ~rxClosed
    /\ Len(chan) < Capacity
    /\ chan' = Append(chan,
                 IF Unwrap(pending).tag = "Ok"
                   THEN OkOutcome([Unwrap(Unwrap(pending).state)
                                     EXCEPT !.instant_of_last_refresh = now])
                   ELSE Unwrap(pending))
    /\ pending' = None
    /\ playback' = None
    /\ liked' = None
    /\ sent' = sent + 1
    /\ pc' = "sleep"
    /\ wakeAt' = now + REFRESH_RATE_MS
    /\ UNCHANGED <<now, polls, likedCalls, produced, rxClosed>>
    /\ UNCHANGED frameVars

SendCompletes ==
    /\ pc = "send"
    /\ ~rxClosed
    /\ Len(chan) < Capacity
    /\ chan' = Append(chan, Unwrap(pending))
    /\ pending' = None
    /\ playback' = None
    /\ liked' = None
    /\ sent' = sent + 1
    /\ pc' = "sleep"
    /\ wakeAt' = now + REFRESH_RATE_MS
    /\ UNCHANGED <<now, polls, likedCalls, produced, rxClosed>>
    /\ UNCHANGED frameVars

\* tx.send(..).await completes with Err: the receiver is gone; the
\* while-let loop ends and the task finishes.
SendFailsAndRetries ==
    /\ pc = "send"
    /\ rxClosed
    /\ polls <= MaxPolls
    /\ pc' = "sleep"
    /\ wakeAt' = now + REFRESH_RATE_MS
    /\ pending' = None
    /\ playback' = None
    /\ liked' = None
    /\ UNCHANGED <<now, polls, likedCalls, sent, produced, chan, rxClosed>>
    /\ UNCHANGED frameVars

SendFails ==
    /\ pc = "send"
    /\ rxClosed
    /\ pc' = "done"
    /\ pending' = None
    /\ playback' = None
    /\ liked' = None
    /\ UNCHANGED <<now, wakeAt, polls, likedCalls, sent, produced, chan,
                   rxClosed>>
    /\ UNCHANGED frameVars

\* tokio::time::sleep(REFRESH_RATE_MS) runs out.
SleepEndsEarly ==
    /\ pc = "sleep"
    /\ pc' = "start"
    /\ wakeAt' = 0
    /\ UNCHANGED <<now, playback, liked, pending, polls, likedCalls, sent,
                   produced, chan, rxClosed>>
    /\ UNCHANGED frameVars

SleepEnds ==
    /\ pc = "sleep"
    /\ now >= wakeAt
    /\ pc' = "start"
    /\ wakeAt' = 0
    /\ UNCHANGED <<now, playback, liked, pending, polls, likedCalls, sent,
                   produced, chan, rxClosed>>
    /\ UNCHANGED frameVars

\* ---------------------------------------------------------------- lib.rs
\* self.rx.try_recv(): Ok(value), Err(Empty) or Err(Disconnected).
TryRecvTag ==
    IF chan # <<>> THEN "Value"
    ELSE IF TxAlive THEN "Empty" ELSE "Disconnected"

\* Instant::elapsed(), saturating at zero.
Elapsed(t) == IF now >= t THEN now - t ELSE 0

\* lib.rs:53  the progress put on the progress bar.
DisplayedProgressClamped(s) ==
    LET p == s.progress + Elapsed(s.instant_of_last_refresh)
    IN  IF p > s.duration THEN s.duration ELSE p

DisplayedProgress(s) == s.progress + Elapsed(s.instant_of_last_refresh)

\* lib.rs:32-37  the displayed state after a frame whose try_recv gave `got`.
MergeClearsOnError(got) ==
    IF got = "Value"
      THEN IF Head(chan).tag = "Ok" THEN Unwrap(Head(chan).state)
           ELSE DefaultState(now)
      ELSE state

Merge(got) ==
    IF got = "Value" /\ Head(chan).tag = "Ok"
      THEN Unwrap(Head(chan).state)
      ELSE state

\* ------------------------------------------------------------ spectrum.rs
\* Bode::new, called by Visualizer::new (lib.rs:24): opens the first device
\* list_input_devs() enumerates; remove(0) panics on an empty list, which
\* aborts show() before anything is spawned.
BodeNewWithFallback ==
    /\ main = "new"
    /\ LET dev == IF devices = <<>> THEN Device("default", 44100)
                  ELSE Head(devices)
       IN  /\ main' = "built"
           /\ bode' = Some(Built(dev))
           /\ audio' = Filled(RingCapacity(dev.rate), 0)
           /\ smoothed' = ZeroBins(WindowSize)
    /\ UNCHANGED <<devices, written, writes, holder, rd, copy, latest,
                   plotted, shows>>
    /\ UNCHANGED <<now, chan, rxClosed>>
    /\ UNCHANGED pollerVars
    /\ UNCHANGED updateVars

BodeNew ==
    /\ main = "new"
    /\ IF devices = <<>>
         THEN /\ main' = "aborted"
              /\ UNCHANGED <<bode, audio, smoothed>>
         ELSE /\ main' = "built"
              /\ bode' = Some(Built(Head(devices)))
              /\ audio' = Filled(RingCapacity(Head(devices).rate), 0)
              /\ smoothed' = ZeroBins(WindowSize)
    /\ UNCHANGED <<devices, written, writes, holder, rd, copy, latest,
                   plotted, shows>>
    /\ UNCHANGED <<now, chan, rxClosed>>
    /\ UNCHANGED pollerVars
    /\ UNCHANGED updateVars

\* lib.rs:154-160  client.spawn(), then eframe::run_native starts the UI.
Spawn ==
    /\ main = "built"
    /\ main' = "running"
    /\ pc' = "start"
    /\ UNCHANGED <<devices, bode, audio, written, writes, holder, rd, copy,
                   latest, smoothed, plotted, shows>>
    /\ UNCHANGED <<now, playback, liked, pending, wakeAt, polls, likedCalls,
                   sent, produced, chan, rxClosed>>
    /\ UNCHANGED updateVars

\* The sample values the audio callback delivers.
Samples == {0, 1, 2}

\* The audio thread's callback (set up at spectrum.rs:39), called any
\* number of times in a row: takes the lock, pushes the samples it was
\* handed (here one sample v, or v as often as the buffer is long),
\* releases the lock.
Write(whole, v) ==
    /\ main \in {"built", "running"}
    /\ holder = "none"
    /\ writes < MaxWrites
    /\ writes' = writes + 1
    /\ LET cap == Unwrap(bode).capacity
           batch == Filled(IF whole THEN cap ELSE 1, v)
       IN  /\ audio' = PushAll(audio, cap, batch)
           /\ written' = Concat(written, batch)
    /\ UNCHANGED <<main, devices, bode, holder, rd, copy, latest, smoothed,
                   plotted, shows>>
    /\ UNCHANGED <<now, chan, rxClosed>>
    /\ UNCHANGED pollerVars
    /\ UNCHANGED updateVars

\* spectrum.rs:51  self.latest_audio_data.clone().lock().unwrap()
ShowLock ==
    /\ main = "running"
    /\ rd = "idle"
    /\ holder = "none"
    /\ shows < MaxShows
    /\ holder' = "reader"
    /\ rd' = "locked"
    /\ UNCHANGED <<main, devices, bode, audio, written, writes, copy, latest,
                   smoothed, plotted, shows>>
    /\ UNCHANGED <<now, chan, rxClosed>>
    /\ UNCHANGED pollerVars
    /\ UNCHANGED updateVars

\* spectrum.rs:51  .to_vec(); the MutexGuard is a temporary of this
\* statement and is dropped at its end.
ShowCopyKeepsLock ==
    /\ rd = "locked"
    /\ copy' = audio
    /\ rd' = "compute"
    /\ UNCHANGED <<main, devices, bode, audio, written, writes, holder, latest,
                   smoothed, plotted, shows>>
    /\ UNCHANGED <<now, chan, rxClosed>>
    /\ UNCHANGED pollerVars
    /\ UNCHANGED updateVars

ShowCopy ==
    /\ rd = "locked"
    /\ copy' = audio
    /\ holder' = "none"
    /\ rd' = "compute"
    /\ UNCHANGED <<main, devices, bode, audio, written, writes, latest,
                   smoothed, plotted, shows>>
    /\ UNCHANGED <<now, chan, rxClosed>>
    /\ UNCHANGED pollerVars
    /\ UNCHANGED updateVars

\* spectrum.rs:52-86  what get_spectrum and show compute from the snapshot
\* when the FFT of its last WindowSize samples has shape `shape`.
Computed(shape) ==
    \E new \in {SpectrumOf(shape, Unwrap(bode).sampling_rate)} :
        \E data \in {Smoothed(new, smoothed)} :
            /\ latest' = new
            /\ smoothed' = data
            /\ plotted' = PlotPoints(data)

\* spectrum.rs:52-86  the rest of show(): slice the last WindowSize samples
\* of the snapshot (a panic when it is shorter), window, FFT, smooth, plot.
ShowCompute ==
    /\ rd = "compute"
    /\ IF RunLen(copy) < WindowSize
         THEN /\ rd' = "panicked"
              /\ main' = "aborted"
              /\ UNCHANGED <<latest, smoothed, plotted, shows>>
         ELSE /\ rd' = "idle"
              /\ shows' = shows + 1
              /\ UNCHANGED main
              /\ \E shape \in ShapesOf(TakeLast(copy, WindowSize)) :
                     Computed(shape)
    /\ UNCHANGED <<devices, bode, audio, written, writes, holder, copy>>
    /\ UNCHANGED <<now, chan, rxClosed>>
    /\ UNCHANGED pollerVars
    /\ UNCHANGED updateVars

\* lib.rs:46  self.bode.show(ui) within one frame, when the audio thread
\* does not run in between.
Show ==
    /\ holder = "none"
    /\ rd = "idle"
    /\ copy' = audio
    /\ IF RunLen(audio) < WindowSize
         THEN /\ rd' = "panicked"
              /\ main' = "aborted"
              /\ UNCHANGED <<latest, smoothed, plotted>>
         ELSE /\ UNCHANGED <<rd, main>>
              /\ \E shape \in ShapesOf(TakeLast(audio, WindowSize)) :
                     Computed(shape)
    /\ UNCHANGED <<devices, bode, audio, written, writes, holder, shows>>

\* One frame: Visualizer::update.
UpdateBlockingRecv ==
    /\ ~rxClosed
    /\ chan # <<>>
    /\ lastRecv' = Head(chan).tag
    /\ chan' = Tail(chan)
    /\ recvd' = Append(recvd, Head(chan))
    /\ state' = Merge("Value")
    /\ shown' = DisplayedProgress(Merge("Value"))
    /\ frameAt' = now
    /\ Show
    /\ UNCHANGED <<now, rxClosed>>
    /\ UNCHANGED pollerVars

Update ==
    /\ main = "running"
    /\ ~rxClosed
    /\ LET got == TryRecvTag
       IN  /\ lastRecv' = IF got = "Value" THEN Head(chan).tag ELSE got
           /\ chan' = IF got = "Value" THEN Tail(chan) ELSE chan
           /\ recvd' = IF got = "Value" THEN Append(recvd, Head(chan)) ELSE recvd
           /\ state' = Merge(got)
           /\ shown' = DisplayedProgress(Merge(got))
           /\ frameAt' = now
    /\ Show
    /\ UNCHANGED <<now, rxClosed>>
    /\ UNCHANGED pollerVars

\* run_native returns and the Visualizer is dropped: the Receiver closes the
\* channel and discards what is buffered.
DropReceiver ==
    /\ main = "running"
    /\ ~rxClosed
    /\ rxClosed' = TRUE
    /\ chan' = <<>>
    /\ UNCHANGED now
    /\ UNCHANGED pollerVars
    /\ UNCHANGED frameVars

\* The wall clock advances.
Tick ==
    /\ now < MaxTime \/ (pc = "sleep" /\ now < wakeAt)
    /\ now' = now + TickMs
    /\ UNCHANGED <<chan, rxClosed>>
    /\ UNCHANGED pollerVars
    /\ UNCHANGED frameVars

Next ==
    \/ CallCurrentPlayback
    \/ \E resp \in PlaybackResponses : CurrentPlaybackReturns(resp)
    \/ \E resp \in LikedResponses : SavedTracksContainsReturns(resp)
    \/ SendCompletes
    \/ SendFails
    \/ SleepEnds
    \/ Update
    \/ DropReceiver
    \/ Tick

Spec == Init /\ [][Next]_vars

\* The poller task is scheduled by the tokio runtime whenever it can run,
\* the provider calls in progress return, and the clock advances.
FairSpec ==
    /\ Spec
    /\ WF_vars(CallCurrentPlayback)
    /\ WF_vars(\E resp \in PlaybackResponses : CurrentPlaybackReturns(resp))
    /\ WF_vars(\E resp \in LikedResponses : SavedTracksContainsReturns(resp))
    /\ WF_vars(SendCompletes)
    /\ WF_vars(SendFails)
    /\ WF_vars(SleepEnds)
    /\ WF_vars(Tick)

\* The audio side: construction, the audio thread's callback and the
\* spectrum part of a frame, step by step.
AudioInit == InitOfShow(DeviceLists)

AudioNext ==
    \/ BodeNew
    \/ Spawn
    \/ \E whole \in BOOLEAN, v \in Samples : Write(whole, v)
    \/ ShowLock
    \/ ShowCopy
    \/ ShowCompute

AudioSpec == AudioInit /\ [][AudioNext]_vars

\* Start-up: construction, the spawn, and the first poll cycle and frames.
StartupInit == InitOfShow(DeviceLists)

StartupNext ==
    \/ BodeNew
    \/ Spawn
    \/ CallCurrentPlayback
    \/ \E resp \in PlaybackResponses : CurrentPlaybackReturns(resp)
    \/ \E resp \in LikedResponses : SavedTracksContainsReturns(resp)
    \/ SendCompletes
    \/ SendFails
    \/ Update
    \/ DropReceiver

StartupSpec == StartupInit /\ [][StartupNext]_vars

\* ================================================================ claims
\* a is an initial segment of b.
IsPrefix(a, b) == Len(a) <= Len(b) /\ a = SubSeq(b, 1, Len(a))

\* C1 -- Backpressure.  While the consumer has received nothing: the first
\* send is never made to wait; at most one send has completed; the outcome
\* in the channel is still the first one produced (not overwritten); and a
\* second send, once started, cannot complete.
Backpressure ==
    /\ (pc = "send" /\ sent = 0 /\ ~rxClosed) => ENABLED SendCompletes
    /\ recvd = <<>> => sent <= 1
    /\ (recvd = <<>> /\ sent = 1 /\ ~rxClosed) => chan = <<produced[1]>>
    /\ (recvd = <<>> /\ sent = 1 /\ pc = "send") => ~ENABLED SendCompletes

\* C1 witness: the second poll's send is pending behind the unreceived first.
BackpressureWitness ==
    /\ pc = "send"
    /\ sent = 1
    /\ Len(produced) = 2
    /\ recvd = <<>>
    /\ ~rxClosed
    /\ chan = <<produced[1]>>
    /\ Unwrap(pending) = produced[2]
    /\ produced[2] # produced[1]

\* C2 -- The channel holds at most one undelivered outcome, and completed
\* sends exceed received outcomes by at most one.
DepthOne ==
    /\ Len(chan) <= 1
    /\ Len(recvd) <= sent
    /\ sent - Len(recvd) <= 1

\* C2 witness: one outcome was received and the next one is buffered.
DepthOneWitness ==
    /\ sent = 2
    /\ Len(recvd) = 1
    /\ Len(chan) = 1
    /\ ~rxClosed

\* C3 -- The outcomes the render loop received are a prefix of the outcomes
\* the poller produced, and while the receiver is alive every outcome whose
\* send completed has been received or is still buffered, in poll order.
PollOrder ==
    /\ IsPrefix(recvd, produced)
    /\ ~rxClosed => recvd \o chan = SubSeq(produced, 1, sent)

\* C3 witness: two different outcomes were received, in production order.
PollOrderWitness ==
    /\ Len(recvd) = 2
    /\ recvd[1] # recvd[2]
    /\ recvd[1] = produced[1]
    /\ recvd[2] = produced[2]

\* C4 as stated -- an outcome, when received, is that of the most recent
\* poll cycle whose provider query had completed.
FreshnessAsStated ==
    [][recvd' # recvd => Len(recvd') = Len(produced)]_vars

\* C4 amended -- when an outcome is received, at most one newer completed
\* outcome exists, and it is not buffered in the channel: it is the one held
\* by the poller's suspended send.
FreshnessWithinOne ==
    [][recvd' # recvd =>
         /\ chan' = <<>>
         /\ Len(produced) - Len(recvd') <= 1
         /\ (Len(produced) > Len(recvd') =>
               pc = "send" /\ Unwrap(pending) = produced[Len(produced)])]_vars

\* C4 witness: the last frame received the first outcome although the
\* second one had been captured before that frame and waits in the send.
FreshnessWitness ==
    /\ pc = "send"
    /\ Len(recvd) = 1
    /\ Len(produced) = 2
    /\ lastRecv \in {"Ok", "Client", "NoContext", "MissingState"}
    /\ Unwrap(pending).tag = "Ok"
    /\ Unwrap(Unwrap(pending).state).instant_of_last_refresh < frameAt

\* C5 -- Shutdown.  Once the receiver has been dropped (and the provider
\* calls in progress return), a delivery attempt of the poller fails and the
\* loop ends; after that the poller does nothing more.
ShutdownBySendFailure ==
    /\ rxClosed ~> (pc = "done")
    /\ [][pc = "done" => UNCHANGED pollerVars]_vars

\* The part of C5 that the code does guarantee: after the receiver is
\* dropped the task stops, by a failed send or by a panic in get_state.
ShutdownOrPanic ==
    /\ rxClosed ~> (pc \in {"done", "panicked"})
    /\ [][pc = "done" => UNCHANGED pollerVars]_vars

\* The most recently received success snapshot, or the default state.
RECURSIVE LastSuccess(_)
LastSuccess(outcomes) ==
    IF outcomes = <<>> THEN DefaultState(0)
    ELSE IF outcomes[Len(outcomes)].tag = "Ok"
      THEN Unwrap(outcomes[Len(outcomes)].state)
    ELSE LastSuccess(SubSeq(outcomes, 1, Len(outcomes) - 1))

\* C6 -- The displayed state, every field and captured_at included, is the
\* most recently received success snapshot, or the default state when no
\* success was received: failures and empty frames leave it as it was.
DisplayedIsLastSuccess == state = LastSuccess(recvd)

\* C6 witness: a success was received, then NoActivePlayback; the displayed
\* state is still the success snapshot.
DisplayedWitness ==
    /\ Len(recvd) = 2
    /\ recvd[1].tag = "Ok"
    /\ recvd[2].tag = "NoContext"
    /\ lastRecv = "NoContext"
    /\ state = Unwrap(recvd[1].state)
    /\ state # DefaultState(0)

\* C7 -- The progress a frame displays is the displayed snapshot's progress
\* plus the time elapsed since it was captured, with no clamp to duration.
ExtrapolatedProgress ==
    shown = state.progress + (frameAt - state.instant_of_last_refresh)

\* C7 witness: with no new poll available the displayed progress has run
\* past the track's duration.
ExtrapolatedWitness ==
    /\ lastRecv = "Empty"
    /\ state.duration > 0
    /\ frameAt > state.instant_of_last_refresh
    /\ shown > state.duration

\* C8 -- A frame can always run and complete while the Visualizer lives,
\* whatever the poller is doing, and it takes at most one outcome out of the
\* channel.
FrameNeverWaits ==
    /\ [](~rxClosed => ENABLED Update)
    /\ [][/\ Len(recvd') <= Len(recvd) + 1
          /\ Len(chan) - Len(chan') <= 1 \/ rxClosed']_vars

\* C8 witness: a frame completed, finding nothing, at an instant at which
\* the poller was still suspended in its first provider call.
FrameNeverWaitsWitness ==
    /\ pc = "query"
    /\ polls = 1
    /\ now >= MaxTime
    /\ frameAt = now
    /\ lastRecv = "Empty"

\* The outcome C9 assigns to a cycle whose playback query answered p and
\* whose liked query (when one was issued) answered l.
ClaimedTag(p, l) ==
    IF p.tag = "Err" THEN "Client"
    ELSE IF ~IsSome(p.ctx) THEN "NoContext"
    ELSE IF ~HasProgressAndTrack(Unwrap(p.ctx)) THEN "MissingState"
    ELSE IF Unwrap(l).tag = "Err" THEN "Client"
    ELSE "Ok"

\* The liked query has been issued in this cycle.
LikedIssued == pc = "liked" \/ IsSome(liked)

\* C9 -- Every poll cycle ends with the outcome the mapping names (no
\* playback: NoContext; no progress or no track item: MissingState; an error
\* of either query: the provider error; otherwise a success State), and the
\* liked query is issued only for active playback with progress and a track.
PollMapping ==
    /\ pc \in {"send", "panicked"} =>
         /\ pc = "send"
         /\ Unwrap(pending).tag = ClaimedTag(Unwrap(playback), liked)
    /\ LikedIssued =>
         /\ Unwrap(playback).tag = "Ok"
         /\ IsSome(Unwrap(playback).ctx)
         /\ HasProgressAndTrack(Unwrap(Unwrap(playback).ctx))

\* What the code does guarantee of C9: a cycle that returns an outcome
\* returns the one the mapping names, and a cycle ends without an outcome
\* only on a track without id, an empty liked answer or an album without
\* image.
PollMappingWhereItReturns ==
    /\ pc = "send" => Unwrap(pending).tag = ClaimedTag(Unwrap(playback), liked)
    /\ pc = "panicked" =>
         LET t == Unwrap(Unwrap(Unwrap(playback).ctx).item.track)
         IN  \/ ~IsSome(t.id)
             \/ IsSome(liked) /\ Unwrap(liked).tag = "Ok"
                  /\ (Unwrap(liked).list = <<>> \/ t.album.images = <<>>)
    /\ LikedIssued =>
         /\ Unwrap(playback).tag = "Ok"
         /\ IsSome(Unwrap(playback).ctx)
         /\ HasProgressAndTrack(Unwrap(Unwrap(playback).ctx))

\* C10 -- A success outcome carries the provider's values exactly, and the
\* poll that builds it leaves the earlier snapshots (buffered, displayed,
\* already produced) as they were.
SnapshotMatchesProvider ==
    /\ [](pc = "send" /\ Unwrap(pending).tag = "Ok" =>
            LET s == Unwrap(Unwrap(pending).state)
                c == Unwrap(Unwrap(playback).ctx)
                t == Unwrap(c.item.track)
            IN  /\ s.progress = Unwrap(c.progress)
                /\ s.duration = t.duration
                /\ s.shuffled = c.shuffle_state
                /\ s.repeat_state = c.repeat_state
                /\ s.track = t.name
                /\ s.album = t.album.name
                /\ Len(s.artists) = Len(t.artists)
                /\ \A i \in 1..Len(t.artists) : s.artists[i] = t.artists[i].name
                /\ s.liked = Unwrap(liked).list[1]
                /\ s.cover_art_url = t.album.images[1].url)
    /\ [][Len(produced') > Len(produced) =>
            /\ SubSeq(produced', 1, Len(produced)) = produced
            /\ chan' = chan
            /\ state' = state
            /\ recvd' = recvd]_vars

\* C10 witness: the poll of the specification's example (progress 30 s,
\* duration 200 s, liked, no shuffle, repeat off, track A, album B, artist
\* C) has produced its snapshot while an earlier snapshot, with two artists
\* and the first of two images, is still buffered.
SnapshotWitness ==
    /\ pc = "send"
    /\ Unwrap(pending) =
         OkOutcome([liked |-> TRUE, shuffled |-> FALSE, repeat_state |-> "Off",
                    progress |-> 30000, duration |-> 200000,
                    instant_of_last_refresh |-> now, track |-> "A",
                    album |-> "B", artists |-> <<"C">>,
                    cover_art_url |-> "artB"])
    /\ Len(chan) = 1
    /\ chan[1].tag = "Ok"
    /\ Unwrap(chan[1].state).artists = <<"D", "E">>
    /\ Unwrap(chan[1].state).cover_art_url = "artN1"

\* ------------------------------------------------------------ audio claims
\* What the ring buffer must hold after the samples `written`: the last
\* `cap` elements of cap zeros followed by the written samples.
LastOfHistory(cap) == TakeLast(Concat(Filled(cap, 0), written), cap)

\* C11 -- Ring buffer.  Once constructed the buffer holds exactly C
\* elements, namely the last C of (C zeros followed by everything written),
\* oldest first; and the snapshot a frame copies is exactly that sequence
\* as of the moment of the copy.
RingBufferFifo ==
    /\ [](IsSome(bode) =>
            /\ RunLen(audio) = Unwrap(bode).capacity
            /\ audio = LastOfHistory(Unwrap(bode).capacity))
    /\ [][rd = "locked" /\ rd' = "compute" =>
            /\ RunLen(copy') = Unwrap(bode).capacity
            /\ copy' = LastOfHistory(Unwrap(bode).capacity)]_vars

\* capacity + 1 samples of two different values were written and the
\* snapshot is samples [1, 1 + capacity) of them.
RingBufferFifoWitness ==
    /\ IsSome(bode)
    /\ rd = "compute"
    /\ RunLen(written) = Unwrap(bode).capacity + 1
    /\ Len(written) = 2
    /\ copy = DropFirst(written, 1)
    /\ Len(copy) = 2

\* The larger of two magnitudes.
Larger(a, b) == IF a >= b THEN a ELSE b

\* C12 -- Peak-hold smoothing.  In every frame, for every bin i the frame's
\* spectrum covers, the stored magnitude becomes the larger of the boosted
\* instantaneous magnitude and the decayed previous one, and the stored
\* frequency becomes the bin's frequency; so without a louder peak the
\* magnitude is the previous one times 0.84.  (Checked at both ends of
\* every run of equal bins of the three vectors, which settles every bin.)
PeakHoldSmoothing ==
    [][rd = "compute" /\ rd' = "idle" =>
         \A i \in RunEnds(latest', 0) \cup RunEnds(smoothed, 0)
                    \cup RunEnds(smoothed', 0) :
             i < BinLen(latest') =>
                 LET instant == BinAt(latest', i).mag * Boost
                     previous == (BinAt(smoothed, i).mag * DecayPercent) \div 100
                 IN  /\ BinAt(smoothed', i).mag = Larger(instant, previous)
                     /\ BinAt(smoothed', i).freq = BinAt(latest', i).freq
                     /\ instant <= previous =>
                            BinAt(smoothed', i).mag = previous]_vars

\* A peak of 2 at bin 100 was held at 2 * 5000 by one frame and has decayed
\* to 8400 in a following silent frame.
PeakHoldSmoothingWitness ==
    /\ shows = 2
    /\ rd = "idle"
    /\ latest = SpectrumOf(Silence, Unwrap(bode).sampling_rate)
    /\ BinAt(smoothed, 100).mag = 8400
    /\ BinAt(smoothed, 100).freq = 100 * Unwrap(bode).sampling_rate

\* C13 -- Output length.  The persistent smoothed spectrum always has 8192
\* entries, and what a frame hands to the plot has exactly 8192 / 2 = 4096
\* points: point i is the logarithm of entry i of the smoothed spectrum,
\* for the first half of the entries.  (Checked at both ends of every run.)
PlotIsFirstHalf ==
    /\ IsSome(bode) => BinLen(smoothed) = WindowSize
    /\ plotted # <<>> =>
         /\ BinLen(plotted) = WindowSize \div 2
         /\ \A i \in RunEnds(plotted, 0) \cup RunEnds(smoothed, 0) :
                i < WindowSize \div 2 =>
                    PointAt(plotted, i) =
                        [x |-> Log10(BinAt(smoothed, i).freq),
                         y |-> Log10(BinAt(smoothed, i).mag)]

\* Two frames on a buffer that was written to, the plot showing a peak.
PlotIsFirstHalfWitness ==
    /\ shows = 2
    /\ writes >= 1
    /\ RunLen(copy) >= WindowSize
    /\ \E j \in 1..Len(plotted) : plotted[j].y.finite

\* C14 -- No input device.  When the host enumerates no input device,
\* construction aborts and is not tried again, nothing is constructed, the
\* poller is never spawned (no provider query, no outcome produced or sent)
\* and no frame is ever rendered; when there are devices, the Bode is built
\* on the first one of the enumeration.
NoDeviceIsFatal ==
    /\ devices = <<>> =>
         /\ main \in {"new", "aborted"}
         /\ main = "aborted" => ~ENABLED BodeNew
         /\ bode = None
         /\ pc = "unspawned"
         /\ polls = 0 /\ likedCalls = 0
         /\ produced = <<>> /\ sent = 0 /\ chan = <<>>
         /\ lastRecv = "none" /\ plotted = <<>>
    /\ IsSome(bode) =>
         /\ devices # <<>>
         /\ Unwrap(bode).device = Head(devices).name
         /\ Unwrap(bode).sampling_rate = Head(devices).rate

\* Construction has aborted on an empty enumeration.
NoDeviceIsFatalWitness == devices = <<>> /\ main = "aborted"

\* C15 -- One outcome per cycle.  Whatever the provider answers, a poll
\* cycle that is over has produced exactly one outcome; while the receiver
\* is alive every produced outcome of a finished cycle was sent; and the
\* poller task has stopped only by a send that failed on the closed channel.
OneOutcomePerCycle ==
    /\ pc \notin {"query", "liked"} => Len(produced) = polls
    /\ (pc \in {"start", "sleep"} /\ ~rxClosed) => sent = polls
    /\ ~TxAlive => (pc = "done" /\ rxClosed)

\* The part of C15 the code does guarantee: the same, for the cycles in
\* which get_state does not panic.
OneOutcomePerCycleOrPanic ==
    /\ pc \notin {"query", "liked", "panicked"} => Len(produced) = polls
    /\ pc = "panicked" => Len(produced) = polls - 1
    /\ (pc \in {"start", "sleep"} /\ ~rxClosed) => sent = polls
    /\ pc = "done" => rxClosed

\* C16 -- Cadence.  Nothing precedes the first query: before it the poller
\* is at the head of its loop with no sleep pending, and the query can be
\* issued.  A query is only issued from the head of the loop, one at a
\* time, when every earlier outcome's send has completed; the head of the
\* loop is reached again only out of a sleep that was started, for
\* REFRESH_RATE_MS, by the completion of a send and has run out; and a send
\* is followed by that sleep whatever the outcome was.
CadenceOrder ==
    /\ [](polls = 0 => (pc = "start" /\ wakeAt = 0 /\ ENABLED CallCurrentPlayback))
    /\ [](polls <= Len(produced) + 1)
    /\ [][polls' # polls =>
            /\ polls' = polls + 1
            /\ pc = "start" /\ pc' = "query"
            /\ sent = polls /\ Len(produced) = polls]_vars
    /\ [][(pc # "start" /\ pc' = "start") =>
            (pc = "sleep" /\ now >= wakeAt)]_vars
    /\ [][pc = "sleep" => (pc' = "sleep" /\ wakeAt' = wakeAt) \/ pc' = "start"]_vars
    /\ [][pc = "send" =>
            \/ pc' = "send" /\ pending' = pending
            \/ pc' = "sleep" /\ sent' = sent + 1
                 /\ wakeAt' = now + REFRESH_RATE_MS
            \/ pc' = "done" /\ rxClosed]_vars

\* The second query is under way, after a failure outcome and a full sleep.
CadenceOrderWitness ==
    /\ polls = 2
    /\ pc = "query"
    /\ produced[1].tag = "NoContext"
    /\ sent = 1
    /\ now >= REFRESH_RATE_MS

\* C17 -- Capacity covers the window.  Whatever the sample rate of the
\* device, the ring buffer built for it holds at least WindowSize samples,
\* and a frame never fails to take the last WindowSize samples of its
\* snapshot.
CapacityCoversWindow ==
    /\ IsSome(bode) => Unwrap(bode).capacity >= WindowSize
    /\ rd # "panicked"

\* The part of C17 the code does guarantee: the capacity covers the window
\* for the devices whose sample rate is above WindowSize / 2 / BufferSeconds.
CapacityCoversWindowAtUsualRates ==
    (IsSome(bode) /\ BufferSeconds * Unwrap(bode).sampling_rate > WindowSize \div 2) =>
        /\ Unwrap(bode).capacity >= WindowSize
        /\ rd # "panicked"

\* C18 -- Lock scope.  The reader holds the ring buffer's lock only between
\* taking it and the end of the copy: never while it computes (or is idle);
\* the audio callback can run whenever the reader is not copying; and what
\* the reader computes on is its own copy, which a write of the audio thread
\* during the computation does not change.
LockOnlyForCopy ==
    /\ [](holder = "reader" <=> rd = "locked")
    /\ [](rd = "compute" =>
            (holder = "none"
             /\ (writes < MaxWrites => ENABLED Write(FALSE, 1))))
    /\ [][rd = "compute" /\ audio' # audio => copy' = copy /\ rd' = "compute"]_vars

\* The audio thread has overwritten the whole buffer while the reader
\* computes on a snapshot taken before.
LockOnlyForCopyWitness ==
    /\ rd = "compute"
    /\ holder = "none"
    /\ copy # audio
    /\ RunLen(copy) = RunLen(audio)

\* C19 -- Finite logarithms.  Every point a frame hands to the plot has a
\* finite log-magnitude, zero magnitudes being floored before the logarithm.
PlottedIsFinite ==
    \A j \in 1..Len(plotted) : plotted[j].y.finite

\* C20 -- Untouched tail.  With K the number of bins of the frequency-limited
\* spectrum at the device's sample rate, a frame's spectrum has K bins and
\* the entries of the smoothed spectrum from index K on are never changed:
\* they are the 8192 - K initial entries (frequency 0, magnitude 0).
TailUntouched ==
    IsSome(bode) =>
        LET K == SpectrumBins(Unwrap(bode).sampling_rate)
        IN  /\ K < WindowSize
            /\ latest # <<>> => BinLen(latest) = K
            /\ DropBins(smoothed, K) = ZeroBins(WindowSize - K)
            /\ BinAt(smoothed, K) = [freq |-> 0, mag |-> 0]
            /\ BinAt(smoothed, WindowSize - 1) = [freq |-> 0, mag |-> 0]

\* Two frames have smoothed a spectrum with a peak into the first K entries.
TailUntouchedWitness ==
    /\ shows = 2
    /\ \E j \in 1..Len(smoothed) : smoothed[j].m > 0
    /\ BinAt(smoothed, SpectrumBins(Unwrap(bode).sampling_rate) - 1).freq > 0

\* The poller is inside a poll cycle or has ended.
PastLoopHead == pc \in {"query", "liked", "send", "done", "panicked"}

\* C21 -- Closing is noticed at a send.  Once the receiver is dropped no
\* send completes any more, and the poller has started at most one cycle
\* beyond those whose send completed: a cycle that is under way or starts
\* after the drop is the last one, the poller never returns from it to the
\* head of its loop, and it issues at most one playback and one liked query
\* in it.  A poller that is suspended in a send when the receiver is gone
\* ends without any further query.
AtMostOneMoreCycle ==
    /\ [](rxClosed => polls <= sent + 1)
    /\ [][rxClosed => sent' = sent]_vars
    /\ [][(rxClosed /\ PastLoopHead) =>
            (PastLoopHead' /\ polls' = polls
             /\ likedCalls' <= likedCalls + 1
             /\ (likedCalls' # likedCalls => pc = "query"))]_vars
    /\ [][(rxClosed /\ pc = "send") =>
            (pc' \in {"send", "done"} /\ polls' = polls
             /\ likedCalls' = likedCalls)]_vars

\* A cycle that can only have started after the drop (the receiver being
\* alive bounds the cycles at MaxPolls) has ended in a failed send.
AtMostOneMoreCycleWitness ==
    /\ rxClosed
    /\ polls = MaxPolls + 1
    /\ sent = MaxPolls
    /\ pc = "done"

\* The last element of a non-empty sequence.
Last(seq) == seq[Len(seq)]

\* C22 -- Order within a successful cycle.  A success outcome comes into
\* being in the step in which the liked query returns, after the playback
\* query has returned: its progress is the one the playback answer fixed,
\* its captured_at is the instant of that step, and nothing has been sent
\* yet.  The send hands over that outcome as it is, captured_at never later
\* than the send; so a frame that receives it displays the progress plus all
\* the time since the capture, the wait for the channel and for the frame
\* included.
CaptureOrder ==
    /\ [][(Len(produced') > Len(produced) /\ Last(produced').tag = "Ok") =>
            LET s == Unwrap(Last(produced').state)
            IN  /\ pc = "liked" /\ pc' = "send"
                /\ IsSome(playback) /\ playback' = playback
                /\ ~IsSome(liked) /\ IsSome(liked')
                /\ s.progress = Unwrap(Unwrap(Unwrap(playback).ctx).progress)
                /\ s.instant_of_last_refresh = now
                /\ sent' = sent /\ chan' = chan]_vars
    /\ [][sent' # sent =>
            /\ Last(chan') = Unwrap(pending)
            /\ Last(chan') = Last(produced)
            /\ Last(chan').tag = "Ok" =>
                 Unwrap(Last(chan').state).instant_of_last_refresh <= now]_vars
    /\ [][(recvd' # recvd /\ Last(recvd').tag = "Ok") =>
            LET s == Unwrap(Last(recvd').state)
            IN  /\ s = Unwrap(produced[Len(recvd')].state)
                /\ shown' = s.progress + (now - s.instant_of_last_refresh)]_vars

\* A second success outcome has been received by a frame later than its
\* capture, and the displayed progress includes the time in between.
CaptureOrderWitness ==
    /\ Len(recvd) = 2
    /\ lastRecv = "Ok"
    /\ recvd[2].tag = "Ok"
    /\ state = Unwrap(recvd[2].state)
    /\ frameAt > state.instant_of_last_refresh
    /\ shown = state.progress + (frameAt - state.instant_of_last_refresh)
    /\ shown > state.progress

=============================================================================
